---- MODULE Spec2Model ----
\* Model of async_queue::AsyncQueue<T> (include/async_queue/async_queue.hpp):
\* one queue object shared by a fixed set of threads.  Every public operation
\* runs under mutex_; cv_ is the single condition variable on which both
\* producers and consumers wait.
EXTENDS Integers, Sequences, FiniteSets, Bags, TLC

\* ---------------------------------------------------------------- bounds
NumThreads == 3
MaxCapacity == 2
MaxCalls == 4
MaxBlockingCalls == 5
MaxFairCalls == 3
MaxMoveCalls == 3

Threads == 1..NumThreads
NoThread == 0
NoItem == 0

\* ----------------------------------------------------------------- state
VARIABLES
    queue_,     \* std::queue<T> queue_ : sequence, head first
    closed_,    \* bool closed_
    capacity_,  \* const size_t capacity_
    mutex_,     \* owner of mutex_, NoThread when free
    cv_,        \* threads suspended inside cv_.wait / cv_.wait_for
    pc,         \* position of each thread inside its current call
    op,         \* operation of the current call of each thread
    arg,        \* the item parameter of push / try_push
    item,       \* the local `T item` of pop / try_pop
    last,       \* the last completed call: its operation and its result
    calls,      \* number of calls started so far
    limit,      \* number of calls the threads make in all
    pushed,     \* values for which push / try_push returned true, in order
    popped,     \* values returned by pop / try_pop, in order
    closes,     \* number of close() calls that have returned
    nOnPush,    \* number of on_push invocations
    nOnPop,     \* number of on_pop invocations
    nOnClose,   \* number of on_close invocations
    other,      \* a second AsyncQueue object: its queue_, closed_, capacity_
    moved,      \* the object built by the move constructor, if any
    fault       \* the capacity-mismatch fault has been raised

vars == <<queue_, closed_, capacity_, mutex_, cv_, pc, op, arg, item, last,
          calls, limit, pushed, popped, closes, nOnPush, nOnPop, nOnClose,
          other, moved, fault>>

data == <<queue_, closed_>>
config == <<capacity_, limit, other, moved, fault>>
hooks == <<nOnPush, nOnPop, nOnClose>>
hist == <<pushed, popped, closes>>

\* the item of the next push: AsyncQueue<T> never inspects a T, so the items
\* are numbered by the call that pushes them and each can be told apart
NextItem == calls + 1

\* results of a call
None == [k |-> "none", v |-> NoItem]
True == [k |-> "true", v |-> NoItem]
False == [k |-> "false", v |-> NoItem]
Nullopt == [k |-> "nullopt", v |-> NoItem]
Void == [k |-> "void", v |-> NoItem]
Some(x) == [k |-> "item", v |-> x]

\* a queue object other than the shared one
Queue(q, cl, cap) == [queue |-> q, closed |-> cl, capacity |-> cap]

\* no such object
NoQueue == Queue(<<>>, FALSE, 0)

\* the items of the second queue: numbered below zero, apart from NextItem
OtherItems(k) == [i \in 1..k |-> 0 - i]

\* the second queue object in any state its own operations can leave it in
OtherQueues ==
    {Queue(OtherItems(k), cl, cap) :
        k \in 0..MaxCapacity, cl \in BOOLEAN, cap \in 1..MaxCapacity}

\* the queue right after AsyncQueue(capacity), shared by threads that make
\* n calls in all, next to a second queue object o
StartWith(n, o) ==
    /\ other = o
    /\ moved = NoQueue
    /\ fault = FALSE
    /\ queue_ = <<>>
    /\ closed_ = FALSE
    /\ capacity_ \in 1..MaxCapacity
    /\ mutex_ = NoThread
    /\ cv_ = {}
    /\ pc = [t \in Threads |-> "idle"]
    /\ op = [t \in Threads |-> "none"]
    /\ arg = [t \in Threads |-> NoItem]
    /\ item = [t \in Threads |-> NoItem]
    /\ last = [op |-> "none", res |-> None]
    /\ calls = 0
    /\ limit = n
    /\ pushed = <<>>
    /\ popped = <<>>
    /\ closes = 0
    /\ nOnPush = 0
    /\ nOnPop = 0
    /\ nOnClose = 0

\* the second queue object is fresh and unused
Start(n) == StartWith(n, Queue(<<>>, FALSE, 1))

Init == Start(MaxCalls)

\* the second queue object holds at most its capacity
InitMove ==
    \E o \in OtherQueues :
        /\ Len(o.queue) <= o.capacity
        /\ StartWith(MaxMoveCalls, o)

InitBlocking == Start(MaxBlockingCalls)

InitFair == Start(MaxFairCalls)

\* ------------------------------------------------- wait predicates
\* variant: <= in place of <
PushPredOffByOne(q, cap, cl) == Len(q) <= cap \/ cl

\* [this] { return queue_.size() < capacity_ || closed_; }
PushPred(q, cap, cl) == Len(q) < cap \/ cl

\* variant: closed_ is left out of the predicate
PopPredNoClosed(q, cl) == q # <<>>

\* [this] { return !queue_.empty() || closed_; }
PopPred(q, cl) == q # <<>> \/ cl

\* ------------------------------------------------- lock / wait fragments
\* operation o returns r: the unique_lock is destroyed, mutex_ is released
Finish(t, o, r) ==
    /\ pc' = [pc EXCEPT ![t] = "idle"]
    /\ op' = [op EXCEPT ![t] = "none"]
    /\ arg' = [arg EXCEPT ![t] = NoItem]
    /\ last' = [op |-> o, res |-> r]
    /\ mutex_' = NoThread
    /\ cv_' = cv_

\* cv_.wait(lock): release mutex_ and suspend on cv_
Block(t, o, v) ==
    /\ pc' = [pc EXCEPT ![t] = "waiting"]
    /\ op' = [op EXCEPT ![t] = o]
    /\ arg' = [arg EXCEPT ![t] = v]
    /\ last' = last
    /\ mutex_' = NoThread
    /\ cv_' = cv_ \cup {t}

\* keep mutex_ and continue at position p
Hold(t, o, v, p) ==
    /\ pc' = [pc EXCEPT ![t] = p]
    /\ op' = [op EXCEPT ![t] = o]
    /\ arg' = [arg EXCEPT ![t] = v]
    /\ last' = last
    /\ mutex_' = t
    /\ cv_' = cv_

\* a call starts: the thread is outside any call and acquires mutex_
Enter(t) ==
    /\ pc[t] = "idle"
    /\ mutex_ = NoThread
    /\ calls < limit
    /\ calls' = calls + 1
    /\ UNCHANGED config

\* a thread that left cv_ re-acquires mutex_ inside wait / wait_for
Reacquire(t, o) ==
    /\ pc[t] \in {"woken", "timedout"}
    /\ op[t] = o
    /\ mutex_ = NoThread
    /\ UNCHANGED <<calls, config>>

\* cv_.notify_one(): at most one suspended thread leaves cv_
NotifyOne(t, p) ==
    /\ mutex_' = mutex_
    /\ IF cv_ = {}
       THEN /\ cv_' = cv_
            /\ pc' = [pc EXCEPT ![t] = p]
       ELSE \E w \in cv_ :
            /\ cv_' = cv_ \ {w}
            /\ pc' = [pc EXCEPT ![t] = p, ![w] = "woken"]

\* ------------------------------------------------------------ push
\* variant: a full queue is reported as failure instead of suspending
push_wait_reject(t, v) ==
    /\ UNCHANGED <<data, hooks, hist, item>>
    /\ IF closed_ \/ Len(queue_) >= capacity_ THEN Finish(t, "push", False)
       ELSE Hold(t, "push", v, "insert")

\* variant: closed_ is not re-checked after the wait
push_wait_norecheck(t, v) ==
    /\ UNCHANGED <<data, hooks, hist, item>>
    /\ IF ~PushPred(queue_, capacity_, closed_) THEN Block(t, "push", v)
       ELSE Hold(t, "push", v, "insert")

\* cv_.wait(lock, pred); if (closed_) return false;     (lines 70-76)
push_wait(t, v) ==
    /\ UNCHANGED <<data, hooks, hist, item>>
    /\ IF ~PushPred(queue_, capacity_, closed_) THEN Block(t, "push", v)
       ELSE IF closed_ THEN Finish(t, "push", False)
       ELSE Hold(t, "push", v, "insert")

\* bool push(U&& item): lock, early closed check, first pass of the wait
push_begin(t, v) ==
    /\ Enter(t)
    /\ IF closed_
       THEN Finish(t, "push", False) /\ UNCHANGED <<data, hooks, hist, item>>
       ELSE push_wait(t, v)

\* push: a woken thread re-acquires the lock and re-evaluates the predicate
push_wake(t) ==
    /\ Reacquire(t, "push")
    /\ push_wait(t, arg[t])

\* ------------------------------------------------------------ try_push
\* variant: the item is inserted before closed_ is re-checked
try_push_wait_early(t, v) ==
    /\ UNCHANGED <<closed_, hooks, hist, item>>
    /\ IF PushPred(queue_, capacity_, closed_)
       THEN IF closed_
            THEN /\ Finish(t, "try_push", False)
                 /\ queue_' = Append(queue_, v)
            ELSE /\ Hold(t, "try_push", v, "insert")
                 /\ queue_' = queue_
       ELSE /\ queue_' = queue_
            /\ IF pc[t] = "timedout" THEN Finish(t, "try_push", False)
               ELSE Block(t, "try_push", v)

\* if (!cv_.wait_for(lock, timeout, pred)) return false;
\* if (closed_) return false;                            (lines 93-101)
try_push_wait(t, v) ==
    /\ UNCHANGED <<data, hooks, hist, item>>
    /\ IF PushPred(queue_, capacity_, closed_)
       THEN IF closed_ THEN Finish(t, "try_push", False)
            ELSE Hold(t, "try_push", v, "insert")
       ELSE IF pc[t] = "timedout" THEN Finish(t, "try_push", False)
       ELSE Block(t, "try_push", v)

\* bool try_push(const T& item, timeout)
try_push_begin(t, v) ==
    /\ Enter(t)
    /\ IF closed_
       THEN /\ Finish(t, "try_push", False)
            /\ UNCHANGED <<data, hooks, hist, item>>
       ELSE try_push_wait(t, v)

\* try_push: a woken or timed-out thread re-acquires the lock
try_push_wake(t) ==
    /\ Reacquire(t, "try_push")
    /\ try_push_wait(t, arg[t])

\* ------------------------------------------- tail of push / try_push
\* queue_.push(item)
push_insert(t) ==
    /\ pc[t] = "insert"
    /\ queue_' = Append(queue_, arg[t])
    /\ pc' = [pc EXCEPT ![t] = "on_push"]
    /\ UNCHANGED <<closed_, config, mutex_, cv_, op, arg, item, last,
                   calls, hist, hooks>>

\* variant: the insertion is not reported to on_push
push_hook_skip(t) ==
    /\ pc[t] = "on_push"
    /\ nOnPush' = nOnPush
    /\ pc' = [pc EXCEPT ![t] = "notify_push"]
    /\ UNCHANGED <<data, config, mutex_, cv_, op, arg, item, last,
                   calls, hist, nOnPop, nOnClose>>

\* on_push(queue_.back())
push_hook(t) ==
    /\ pc[t] = "on_push"
    /\ nOnPush' = nOnPush + 1
    /\ pc' = [pc EXCEPT ![t] = "notify_push"]
    /\ UNCHANGED <<data, config, mutex_, cv_, op, arg, item, last,
                   calls, hist, nOnPop, nOnClose>>

\* cv_.notify_one()
push_notify(t) ==
    /\ pc[t] = "notify_push"
    /\ NotifyOne(t, "ret_push")
    /\ UNCHANGED <<data, config, op, arg, item, last, calls, hist, hooks>>

\* return true
push_return(t) ==
    /\ pc[t] = "ret_push"
    /\ Finish(t, op[t], True)
    /\ pushed' = Append(pushed, arg[t])
    /\ UNCHANGED <<data, config, item, calls, popped, closes, hooks>>

\* ------------------------------------------------------------ pop
\* variant: the result is decided by closed_ instead of queue_.empty()
pop_wait_closed(t) ==
    /\ UNCHANGED <<data, hooks, hist, item>>
    /\ IF ~PopPred(queue_, closed_) THEN Block(t, "pop", NoItem)
       ELSE IF closed_ THEN Finish(t, "pop", Nullopt)
       ELSE Hold(t, "pop", NoItem, "remove")

\* variant: cv_.wait(lock) without the predicate loop: any wakeup ends it
pop_wait_noloop(t) ==
    /\ UNCHANGED <<data, hooks, hist, item>>
    /\ IF pc[t] # "woken" /\ ~PopPred(queue_, closed_)
       THEN Block(t, "pop", NoItem)
       ELSE IF queue_ = <<>> THEN Finish(t, "pop", Nullopt)
       ELSE Hold(t, "pop", NoItem, "remove")

\* cv_.wait(lock, pred); if (queue_.empty()) return std::nullopt;
pop_wait(t) ==
    /\ UNCHANGED <<data, hooks, hist, item>>
    /\ IF ~PopPred(queue_, closed_) THEN Block(t, "pop", NoItem)
       ELSE IF queue_ = <<>> THEN Finish(t, "pop", Nullopt)
       ELSE Hold(t, "pop", NoItem, "remove")

\* std::optional<T> pop()
pop_begin(t) ==
    /\ Enter(t)
    /\ pop_wait(t)

\* pop: a woken thread re-acquires the lock and re-evaluates the predicate
pop_wake(t) ==
    /\ Reacquire(t, "pop")
    /\ pop_wait(t)

\* ------------------------------------------------------------ try_pop
\* variant: an expired timeout fails without a last look at the predicate
try_pop_wait_giveup(t) ==
    /\ UNCHANGED <<data, hooks, hist, item>>
    /\ IF pc[t] = "timedout" THEN Finish(t, "try_pop", Nullopt)
       ELSE IF PopPred(queue_, closed_)
       THEN IF queue_ = <<>> THEN Finish(t, "try_pop", Nullopt)
            ELSE Hold(t, "try_pop", NoItem, "remove")
       ELSE Block(t, "try_pop", NoItem)

\* if (!cv_.wait_for(lock, timeout, pred)) return std::nullopt;
\* if (queue_.empty()) return std::nullopt;
try_pop_wait(t) ==
    /\ UNCHANGED <<data, hooks, hist, item>>
    /\ IF PopPred(queue_, closed_)
       THEN IF queue_ = <<>> THEN Finish(t, "try_pop", Nullopt)
            ELSE Hold(t, "try_pop", NoItem, "remove")
       ELSE IF pc[t] = "timedout" THEN Finish(t, "try_pop", Nullopt)
       ELSE Block(t, "try_pop", NoItem)

\* std::optional<T> try_pop(timeout)
try_pop_begin(t) ==
    /\ Enter(t)
    /\ try_pop_wait(t)

\* try_pop: a woken or timed-out thread re-acquires the lock
try_pop_wake(t) ==
    /\ Reacquire(t, "try_pop")
    /\ try_pop_wait(t)

\* --------------------------------------------- tail of pop / try_pop
\* variant: the newest element is taken instead of the oldest
pop_remove_back(t) ==
    /\ pc[t] = "remove"
    /\ item' = [item EXCEPT ![t] = queue_[Len(queue_)]]
    /\ queue_' = SubSeq(queue_, 1, Len(queue_) - 1)
    /\ pc' = [pc EXCEPT ![t] = "on_pop"]
    /\ UNCHANGED <<closed_, config, mutex_, cv_, op, arg, last,
                   calls, hist, hooks>>

\* variant: the head is copied but queue_.pop() is forgotten
pop_remove_keep(t) ==
    /\ pc[t] = "remove"
    /\ item' = [item EXCEPT ![t] = Head(queue_)]
    /\ pc' = [pc EXCEPT ![t] = "on_pop"]
    /\ UNCHANGED <<data, config, mutex_, cv_, op, arg, last,
                   calls, hist, hooks>>

\* T item = std::move(queue_.front()); queue_.pop();
pop_remove(t) ==
    /\ pc[t] = "remove"
    /\ item' = [item EXCEPT ![t] = Head(queue_)]
    /\ queue_' = Tail(queue_)
    /\ pc' = [pc EXCEPT ![t] = "on_pop"]
    /\ UNCHANGED <<closed_, config, mutex_, cv_, op, arg, last,
                   calls, hist, hooks>>

\* on_pop(item)
pop_hook(t) ==
    /\ pc[t] = "on_pop"
    /\ nOnPop' = nOnPop + 1
    /\ pc' = [pc EXCEPT ![t] = "notify_pop"]
    /\ UNCHANGED <<data, config, mutex_, cv_, op, arg, item, last,
                   calls, hist, nOnPush, nOnClose>>

\* variant: the removal is not announced on cv_
pop_notify_none(t) ==
    /\ pc[t] = "notify_pop"
    /\ pc' = [pc EXCEPT ![t] = "ret_pop"]
    /\ UNCHANGED <<data, config, mutex_, cv_, op, arg, item, last, calls,
                   hist, hooks>>

\* cv_.notify_one()
pop_notify(t) ==
    /\ pc[t] = "notify_pop"
    /\ NotifyOne(t, "ret_pop")
    /\ UNCHANGED <<data, config, op, arg, item, last, calls, hist, hooks>>

\* return item
pop_return(t) ==
    /\ pc[t] = "ret_pop"
    /\ Finish(t, op[t], Some(item[t]))
    /\ popped' = Append(popped, item[t])
    /\ item' = [item EXCEPT ![t] = NoItem]
    /\ UNCHANGED <<data, config, calls, pushed, closes, hooks>>

\* ------------------------------------------------------------ close
\* variant: closed_ is never set
close_begin_noflag(t) ==
    /\ Enter(t)
    /\ closed_' = closed_
    /\ Hold(t, "close", NoItem, "on_close")
    /\ UNCHANGED <<queue_, hooks, hist, item>>

\* variant: close() flips closed_ instead of setting it
close_begin_toggle(t) ==
    /\ Enter(t)
    /\ closed_' = ~closed_
    /\ Hold(t, "close", NoItem, "on_close")
    /\ UNCHANGED <<queue_, hooks, hist, item>>

\* void close(): lock; closed_ = true;
close_begin(t) ==
    /\ Enter(t)
    /\ closed_' = TRUE
    /\ Hold(t, "close", NoItem, "on_close")
    /\ UNCHANGED <<queue_, hooks, hist, item>>

\* variant: on_close() is invoked only by the first close()
close_hook_once(t) ==
    /\ pc[t] = "on_close"
    /\ nOnClose' = IF nOnClose = 0 THEN 1 ELSE nOnClose
    /\ pc' = [pc EXCEPT ![t] = "notify_all"]
    /\ UNCHANGED <<data, config, mutex_, cv_, op, arg, item, last,
                   calls, hist, nOnPush, nOnPop>>

\* on_close()
close_hook(t) ==
    /\ pc[t] = "on_close"
    /\ nOnClose' = nOnClose + 1
    /\ pc' = [pc EXCEPT ![t] = "notify_all"]
    /\ UNCHANGED <<data, config, mutex_, cv_, op, arg, item, last,
                   calls, hist, nOnPush, nOnPop>>

\* variant: notify_one() in place of notify_all()
close_notify_one(t) ==
    /\ pc[t] = "notify_all"
    /\ NotifyOne(t, "ret_close")
    /\ UNCHANGED <<data, config, op, arg, item, last, calls, hist, hooks>>

\* cv_.notify_all(): every suspended thread leaves cv_
close_notify(t) ==
    /\ pc[t] = "notify_all"
    /\ cv_' = {}
    /\ pc' = [w \in Threads |-> IF w = t THEN "ret_close"
                                ELSE IF w \in cv_ THEN "woken" ELSE pc[w]]
    /\ UNCHANGED <<data, config, mutex_, op, arg, item, last,
                   calls, hist, hooks>>

\* the end of close(): the lock is released
close_return(t) ==
    /\ pc[t] = "ret_close"
    /\ Finish(t, "close", Void)
    /\ closes' = closes + 1
    /\ UNCHANGED <<data, config, item, calls, pushed, popped, hooks>>

\* ------------------------------------------------------------ move
\* variant: closed_ is not copied, the new object starts open
move_construct_open(t) ==
    /\ pc[t] = "idle"
    /\ mutex_ = NoThread
    /\ ~fault
    /\ calls < limit
    /\ calls' = calls + 1
    /\ moved' = Queue(queue_, FALSE, capacity_)
    /\ queue_' = <<>>
    /\ last' = [op |-> "move_construct", res |-> Void]
    /\ UNCHANGED <<closed_, capacity_, limit, other, fault, mutex_, cv_, pc,
                   op, arg, item, hist, hooks>>

\* AsyncQueue(AsyncQueue&& other): the shared queue is the source; the new
\* object takes its capacity, then, under the source's lock, its queue_
\* (the moved-from std::queue is left empty) and its closed_
move_construct(t) ==
    /\ pc[t] = "idle"
    /\ mutex_ = NoThread
    /\ ~fault
    /\ calls < limit
    /\ calls' = calls + 1
    /\ moved' = Queue(queue_, closed_, capacity_)
    /\ queue_' = <<>>
    /\ last' = [op |-> "move_construct", res |-> Void]
    /\ UNCHANGED <<closed_, capacity_, limit, other, fault, mutex_, cv_, pc,
                   op, arg, item, hist, hooks>>

\* std::terminate: the exception leaves a noexcept function, every thread ends
Terminate ==
    /\ fault' = TRUE
    /\ pc' = [w \in Threads |-> "terminated"]

\* variant: the capacities are not compared
move_assign_unchecked(t, self) ==
    /\ pc[t] = "idle"
    /\ ~fault
    /\ calls < limit
    /\ calls' = calls + 1
    /\ last' = [op |-> "move_assign", res |-> Void]
    /\ UNCHANGED <<capacity_, limit, moved, cv_, op, arg, item, hist, hooks,
                   mutex_, fault, pc>>
    /\ IF self
       THEN UNCHANGED <<data, other>>
       ELSE /\ mutex_ = NoThread
            /\ queue_' = other.queue
            /\ closed_' = other.closed
            /\ other' = [other EXCEPT !.queue = <<>>]

\* AsyncQueue& operator=(AsyncQueue&& other): the shared queue is the target
\* (self: this == &other)
move_assign(t, self) ==
    /\ pc[t] = "idle"
    /\ ~fault
    /\ calls < limit
    /\ calls' = calls + 1
    /\ last' = [op |-> "move_assign", res |-> Void]
    /\ UNCHANGED <<capacity_, limit, moved, cv_, op, arg, item, hist, hooks,
                   mutex_>>
    /\ IF self
       THEN UNCHANGED <<data, other, fault, pc>>
       ELSE IF capacity_ # other.capacity
       THEN Terminate /\ UNCHANGED <<data, other>>
       ELSE /\ mutex_ = NoThread
            /\ queue_' = other.queue
            /\ closed_' = other.closed
            /\ other' = [other EXCEPT !.queue = <<>>]
            /\ UNCHANGED <<fault, pc>>

\* ------------------------------------------------- the environment
\* a spurious wakeup: a suspended thread leaves cv_ without a notification
Spurious(t) ==
    /\ pc[t] = "waiting"
    /\ pc' = [pc EXCEPT ![t] = "woken"]
    /\ cv_' = cv_ \ {t}
    /\ UNCHANGED <<data, config, mutex_, op, arg, item, last,
                   calls, hist, hooks>>

\* the timeout of wait_for expires while the thread is suspended
Timeout(t) ==
    /\ pc[t] = "waiting"
    /\ op[t] \in {"try_push", "try_pop"}
    /\ pc' = [pc EXCEPT ![t] = "timedout"]
    /\ cv_' = cv_ \ {t}
    /\ UNCHANGED <<data, config, mutex_, op, arg, item, last,
                   calls, hist, hooks>>

\* ------------------------------------------------- specifications
\* the steps a thread takes once it is inside a call and can run
PushSteps(t) ==
    \/ push_wake(t)
    \/ push_insert(t)
    \/ push_hook(t)
    \/ push_notify(t)
    \/ push_return(t)

PopSteps(t) ==
    \/ pop_wake(t)
    \/ pop_remove(t)
    \/ pop_hook(t)
    \/ pop_notify(t)
    \/ pop_return(t)

CloseSteps(t) ==
    \/ close_hook(t)
    \/ close_notify(t)
    \/ close_return(t)

Run(t) ==
    \/ PushSteps(t)
    \/ try_push_wake(t)
    \/ PopSteps(t)
    \/ try_pop_wake(t)
    \/ CloseSteps(t)

\* every operation, any interleaving
Next ==
    \E t \in Threads :
        \/ push_begin(t, NextItem)
        \/ try_push_begin(t, NextItem)
        \/ pop_begin(t)
        \/ try_pop_begin(t)
        \/ close_begin(t)
        \/ Run(t)
        \/ Spurious(t)
        \/ Timeout(t)

Spec == Init /\ [][Next]_vars

\* blocking push / pop only: no close, no timed call, no spurious wakeup
NextBlocking ==
    \E t \in Threads :
        \/ push_begin(t, NextItem)
        \/ pop_begin(t)
        \/ PushSteps(t)
        \/ PopSteps(t)

SpecBlocking == InitBlocking /\ [][NextBlocking]_vars

\* blocking push / pop, close and the two move operations
NextMove ==
    \E t \in Threads :
        \/ push_begin(t, NextItem)
        \/ pop_begin(t)
        \/ close_begin(t)
        \/ PushSteps(t)
        \/ PopSteps(t)
        \/ CloseSteps(t)
        \/ move_construct(t)
        \/ \E self \in BOOLEAN : move_assign(t, self)

SpecMove == InitMove /\ [][NextMove]_vars

\* fair scheduling: a thread that can run inside a call eventually does;
\* starting a call, a timeout and a spurious wakeup are never forced
FairSpec == InitFair /\ [][Next]_vars /\ \A t \in Threads : WF_vars(Run(t))

\* one producer thread and one consumer thread, as in the tests PushBlocking
\* and PopBlocking
Producer == 1
Consumer == 2

\* the producer only calls push(), the consumer only calls pop(); suspended
\* threads may wake spuriously
NextSPSC ==
    \/ push_begin(Producer, NextItem)
    \/ PushSteps(Producer)
    \/ pop_begin(Consumer)
    \/ PopSteps(Consumer)
    \/ \E t \in {Producer, Consumer} : Spurious(t)

\* both threads keep running while they are inside a call
SpecSPSC ==
    /\ InitBlocking
    /\ [][NextSPSC]_vars
    /\ WF_vars(PushSteps(Producer))
    /\ WF_vars(PopSteps(Consumer))

\* ------------------------------------------------- type invariant
TypeOK ==
    /\ queue_ \in Seq((0 - MaxCapacity)..calls)
    /\ closed_ \in BOOLEAN
    /\ capacity_ \in 1..MaxCapacity
    /\ calls \in 0..limit
    /\ mutex_ \in Threads \cup {NoThread}
    /\ cv_ \subseteq Threads
    /\ \A t \in Threads : (t \in cv_) <=> (pc[t] = "waiting")
    /\ \A t \in Threads :
          (mutex_ = t) <=> pc[t] \in {"insert", "on_push", "notify_push",
                                      "ret_push", "remove", "on_pop",
                                      "notify_pop", "ret_pop", "on_close",
                                      "notify_all", "ret_close"}

\* ------------------------------------------------- helpers of the claims
Pushes == {"push", "try_push"}
Pops == {"pop", "try_pop"}
InCall == {"insert", "on_push", "notify_push", "ret_push", "remove",
           "on_pop", "notify_pop", "ret_pop", "on_close", "notify_all",
           "ret_close"}

RECURSIVE Count(_, _)
Count(s, v) ==
    IF s = <<>> THEN 0
    ELSE (IF Head(s) = v THEN 1 ELSE 0) + Count(Tail(s), v)

IsPrefix(s, r) == Len(s) <= Len(r) /\ \A i \in 1..Len(s) : s[i] = r[i]

\* the item a pop holds between its removal and its return
Held ==
    IF \E t \in Threads : item[t] # NoItem
    THEN <<item[CHOOSE t \in Threads : item[t] # NoItem]>>
    ELSE <<>>

\* everything popped so far followed by everything still to be popped
Stream == popped \o Held \o queue_

\* ------------------------------------------------- C1
\* C1: no lost wakeup.  With blocking push and pop only (no close, no timeout,
\* no spurious wakeup) there is no state in which every thread is suspended
\* on cv_ while the wait predicate of one of them is true (len < capacity for
\* a producer, len > 0 for a consumer).
C1_NoLostWakeup ==
    ~ ( /\ \A t \in Threads : pc[t] = "waiting"
        /\ \E t \in Threads :
              \/ op[t] = "push" /\ Len(queue_) < capacity_
              \/ op[t] = "pop" /\ Len(queue_) > 0 )

\* ------------------------------------------------- C2
\* C2: capacity bound: 0 <= len(items) <= capacity in every reachable state.
C2_CapacityBound == 0 <= Len(queue_) /\ Len(queue_) <= capacity_

\* a push has filled the queue and returned
C2_Witness ==
    /\ Len(queue_) = capacity_
    /\ mutex_ = NoThread
    /\ last.op \in Pushes
    /\ last.res = True

\* ------------------------------------------------- C3
\* C3: FIFO: the values returned by pop / try_pop, in lock order, are a prefix
\* of the values inserted by successful push / try_push, in lock order.
C3_Fifo == IsPrefix(popped, pushed)

\* two different values went through the queue
C3_Witness ==
    /\ Len(popped) >= 2
    /\ popped[1] # popped[2]

\* ------------------------------------------------- C4
\* C4: conservation: whenever the lock is free, the multiset of values whose
\* push returned true equals the multiset of values returned by pops plus
\* the multiset of values in queue_.
C4_Conservation ==
    mutex_ = NoThread =>
        \A v \in 1..calls :
            Count(pushed, v) = Count(popped, v) + Count(queue_, v)

\* some values were popped and others are still buffered
C4_Witness ==
    /\ mutex_ = NoThread
    /\ popped # <<>>
    /\ queue_ # <<>>
    /\ Len(pushed) >= 3

\* ------------------------------------------------- C5
\* C5: close() releases every waiter: a thread that is suspended, or on its
\* way out of a wait, while closed_ is set eventually returns, and a producer
\* released this way returns false.
C5_CloseReleases ==
    /\ \A t \in Threads :
          (closed_ /\ pc[t] \in {"waiting", "woken", "timedout"})
              ~> (pc[t] = "idle")
    /\ [][\A t \in Threads :
              (closed_ /\ op[t] \in Pushes
                  /\ pc[t] \in {"woken", "timedout"} /\ pc'[t] # pc[t])
              => (pc'[t] = "idle" /\ last'.res = False)]_vars

\* close() has just released two suspended threads at once
C5_Witness ==
    /\ \E c \in Threads : pc[c] = "ret_close"
    /\ Cardinality({t \in Threads : pc[t] = "woken"}) >= 2

\* ------------------------------------------------- C6
\* C6: once a close() call has returned, a push / try_push that starts
\* returns false in that very step: it does not suspend, and queue_ is
\* unchanged.
C6_ClosedPush ==
    [][\A t \in Threads :
          (closes > 0 /\ (push_begin(t, NextItem)
                              \/ try_push_begin(t, NextItem)))
          => (/\ pc'[t] = "idle"
              /\ last'.res = False
              /\ queue_' = queue_)]_vars

\* a push on a queue that never held an item failed after close() returned
C6_Witness ==
    /\ closes > 0
    /\ last.op \in Pushes
    /\ last.res = False
    /\ pushed = <<>>
    /\ queue_ = <<>>

\* ------------------------------------------------- C7
\* C7: drain-then-signal: once closed_ is set the stream of values popped and
\* still to be popped never changes (pops return the buffered items in FIFO
\* order); a pop / try_pop that starts on a closed queue never suspends, it
\* proceeds to remove the head when queue_ is non-empty and returns
\* empty-result when queue_ is empty; a closed empty queue stays closed and
\* empty.
C7_Drain ==
    [][/\ closed_ => (Stream' = Stream /\ closed_')
       /\ (closed_ /\ queue_ = <<>>) => queue_' = <<>>
       /\ \A t \in Threads :
             (closed_ /\ (pop_begin(t) \/ try_pop_begin(t)))
             => IF queue_ = <<>>
                THEN pc'[t] = "idle" /\ last'.res = Nullopt
                ELSE pc'[t] = "remove"]_vars

\* after close() returned a pop holds a buffered item and more are buffered
C7_Witness ==
    /\ closes > 0
    /\ queue_ # <<>>
    /\ \E t \in Threads : pc[t] = "ret_pop" /\ item[t] # NoItem

\* ------------------------------------------------- C8
\* C8: backpressure: a blocking push returns false only when closed_ is set
\* at that moment (and then leaves queue_ alone); on an open queue it either
\* suspends (queue full) or goes on to insert (len < capacity, not closed);
\* the insertion appends its item at the tail, and it returns true with its
\* item at the tail of an open queue.
C8_Backpressure ==
    [][\A t \in Threads :
          /\ (push_begin(t, NextItem) \/ push_wake(t)) =>
                    /\ pc'[t] = "idle" =>
                          (closed_ /\ last'.res = False /\ queue_' = queue_)
                    /\ pc'[t] = "waiting" =>
                          (Len(queue_) >= capacity_ /\ ~closed_)
                    /\ pc'[t] = "insert" =>
                          (Len(queue_) < capacity_ /\ ~closed_)
                    /\ pc'[t] \in {"idle", "waiting", "insert"}
          /\ (push_insert(t) /\ op[t] = "push") =>
                (/\ Len(queue_) < capacity_
                 /\ ~closed_
                 /\ queue_' = Append(queue_, arg[t]))
          /\ (push_return(t) /\ op[t] = "push") =>
                (/\ last'.res = True
                 /\ ~closed_
                 /\ queue_ # <<>>
                 /\ queue_[Len(queue_)] = arg[t])]_vars

\* a blocking push is suspended on a full open queue
C8_Witness ==
    /\ ~closed_
    /\ Len(queue_) = capacity_
    /\ \E t \in Threads : pc[t] = "waiting" /\ op[t] = "push"

\* ------------------------------------------------- C9
\* C9: a blocking pop returns empty-result only when the queue is closed and
\* empty at that moment; on an open queue it suspends or goes on to remove
\* the head; whenever queue_ is non-empty when it proceeds it removes the
\* head and returns it.
C9_PopResult ==
    [][\A t \in Threads :
          /\ (pop_begin(t) \/ pop_wake(t)) =>
                /\ pc'[t] = "idle" =>
                      (closed_ /\ queue_ = <<>> /\ last'.res = Nullopt)
                /\ ~closed_ => pc'[t] \in {"waiting", "remove"}
                /\ queue_ # <<>> => pc'[t] = "remove"
                /\ pc'[t] = "waiting" => (queue_ = <<>> /\ ~closed_)
          /\ (pop_remove(t) /\ op[t] = "pop") =>
                (/\ item'[t] = Head(queue_)
                 /\ queue_' = Tail(queue_))
          /\ (pop_return(t) /\ op[t] = "pop") =>
                (last'.res = Some(item[t]) /\ item[t] # NoItem)]_vars

\* a blocking pop returned empty-result on a closed empty queue
C9_Witness ==
    /\ closed_
    /\ queue_ = <<>>
    /\ last.op = "pop"
    /\ last.res = Nullopt

\* ------------------------------------------------- C10
\* C10: a try_push that returns false and a try_pop that returns
\* empty-result do so in a step that leaves queue_, closed_ and the hook
\* counts unchanged, as does every earlier step of the call (which suspends
\* it); a call that has reached its insertion or removal never returns false
\* or empty-result.
C10_TimeoutFrame ==
    [][\A t \in Threads :
          /\ ((try_push_begin(t, NextItem) \/ try_push_wake(t)
                     \/ try_pop_begin(t) \/ try_pop_wake(t))
                  /\ pc'[t] \in {"idle", "waiting"})
                => UNCHANGED <<queue_, closed_, nOnPush, nOnPop, nOnClose>>
          /\ (pc[t] \in InCall /\ pc'[t] = "idle")
                => last'.res \notin {False, Nullopt}]_vars

\* a try_push timed out on a full open queue
C10_Witness ==
    /\ ~closed_
    /\ closes = 0
    /\ Len(queue_) = capacity_
    /\ last.op = "try_push"
    /\ last.res = False

\* ------------------------------------------------- C11
\* C11: closed_ is monotonic: once true it stays true after any public
\* operation on the object, same-capacity move-assignment from another queue
\* included.
C11_ClosedMonotonic == [][closed_ => closed_']_vars

\* ------------------------------------------------- C14
\* C14: move-assignment from a queue of a different capacity ends in the
\* fault and leaves queue_ and closed_ of both objects unchanged;
\* move-assignment between queues of equal capacity does not fault.
C14_CapacityMismatch ==
    [][\A t \in Threads :
          move_assign(t, FALSE) =>
              IF capacity_ # other.capacity
              THEN /\ fault'
                   /\ queue_' = queue_
                   /\ closed_' = closed_
                   /\ other' = other
              ELSE ~fault']_vars

\* the fault was raised and both queues still hold their items
C14_Witness ==
    /\ fault
    /\ queue_ # <<>>
    /\ other.queue # <<>>
    /\ capacity_ # other.capacity

\* ------------------------------------------------- C15
\* C15: the move constructor gives the new object the capacity, the closed
\* flag and the items of the source, in the same order, and runs only while
\* no thread is inside a critical section of the source.
C15_MoveConstruct ==
    [][\A t \in Threads :
          move_construct(t) =>
              /\ moved'.capacity = capacity_
              /\ moved'.closed = closed_
              /\ moved'.queue = queue_
              /\ \A w \in Threads : pc[w] \notin InCall]_vars

\* a closed queue holding two items was moved into a new object
C15_Witness ==
    /\ moved.capacity = capacity_
    /\ moved.closed
    /\ Len(moved.queue) >= 2
    /\ last.op = "move_construct"

\* ------------------------------------------------- C12
\* positions of a thread inside close()
ClosePcs == {"on_close", "notify_all", "ret_close"}

\* C12: close() is idempotent: once one close() has completed, every step of
\* a further close() leaves the items, the closed flag, the set of suspended
\* threads, the completed pushes and pops and every other thread's position
\* unchanged, raises no fault, and the further close() always returns.
C12_IdempotentClose ==
    /\ [][\A t \in Threads :
             (closes >= 1 /\ (close_begin(t) \/ CloseSteps(t))) =>
                 /\ closed_
                 /\ cv_ = {}
                 /\ UNCHANGED <<queue_, closed_, cv_, pushed, popped, fault>>
                 /\ \A w \in Threads \ {t} : pc'[w] = pc[w]]_vars
    /\ \A t \in Threads :
          (closes >= 1 /\ pc[t] \in ClosePcs) ~> (pc[t] = "idle")

\* two close() calls have completed on a queue that still holds an item
C12_Witness ==
    /\ closes >= 2
    /\ closed_
    /\ queue_ # <<>>
    /\ last = [op |-> "close", res |-> Void]

\* ------------------------------------------------- C16
\* C16: a push() or try_push() that was suspended and re-acquires the lock
\* after closed_ became true returns false and does not insert its item,
\* whether or not a pop has freed space in the meantime.
C16_CloseRace ==
    [][\A t \in Threads :
          (closed_ /\ (push_wake(t) \/ try_push_wake(t))) =>
              /\ pc'[t] = "idle"
              /\ last' = [op |-> op[t], res |-> False]
              /\ queue_' = queue_
              /\ pushed' = pushed
              /\ UNCHANGED hooks]_vars

\* a producer that was suspended is about to re-acquire the lock of a closed
\* queue in which a pop has freed space
C16_Witness ==
    \E t \in Threads :
        /\ pc[t] \in {"woken", "timedout"}
        /\ op[t] \in Pushes
        /\ closed_
        /\ mutex_ = NoThread
        /\ Len(queue_) < capacity_
        /\ popped # <<>>
        /\ Count(queue_, arg[t]) = 0

\* ------------------------------------------------- C17
\* C17: on_close() runs once per close() call, redundant calls included: the
\* number of invocations equals the number of close() calls that are past
\* the hook; the hook runs with closed_ set and the lock held, and it runs
\* before the call's notify_all(), so no suspended thread has been released
\* by the call when its hook runs.
C17_OnCloseOnce ==
    /\ [](/\ nOnClose = closes + Cardinality({t \in Threads :
                                    pc[t] \in {"notify_all", "ret_close"}})
          /\ \A t \in Threads :
                pc[t] \in ClosePcs => closed_ /\ mutex_ = t)
    /\ [][\A t \in Threads :
             /\ close_hook(t) =>
                   /\ nOnClose' = nOnClose + 1
                   /\ closed_
                   /\ cv_' = cv_
                   /\ \A w \in Threads \ {t} : pc'[w] = pc[w]
             /\ close_notify(t) => nOnClose = closes + 1]_vars

\* the hook has run for a first and for a redundant close()
C17_Witness ==
    /\ nOnClose >= 2
    /\ closes >= 1
    /\ queue_ # <<>>
    /\ \E t \in Threads : pc[t] = "notify_all"

\* ------------------------------------------------- C18
\* C18: the hooks see every mutation once: whenever the lock is free, the
\* number of on_push calls is the number of pushes that returned true, the
\* number of on_pop calls is the number of pops that returned an item, and
\* their difference is the length of queue_; on_push runs under the lock
\* with the inserted item at the tail, on_pop runs under the lock with the
\* item already removed, and a call that fails invokes no hook.
C18_HooksSerialized ==
    /\ [](mutex_ = NoThread =>
             /\ nOnPush = Len(pushed)
             /\ nOnPop = Len(popped)
             /\ nOnPush - nOnPop = Len(queue_))
    /\ [][\A t \in Threads :
             /\ push_hook(t) =>
                   /\ mutex_ = t
                   /\ queue_ # <<>>
                   /\ queue_[Len(queue_)] = arg[t]
                   /\ nOnPush' = nOnPush + 1
             /\ pop_hook(t) =>
                   /\ mutex_ = t
                   /\ item[t] # NoItem
                   /\ Count(queue_, item[t]) = 0
                   /\ nOnPop' = nOnPop + 1
             /\ (pc[t] # "idle" /\ pc'[t] = "idle"
                    /\ last'.res \in {False, Nullopt}) =>
                   UNCHANGED hooks]_vars

\* the lock is free after two insertions and one removal were reported
C18_Witness ==
    /\ mutex_ = NoThread
    /\ nOnPush >= 2
    /\ nOnPop >= 1
    /\ queue_ # <<>>
    /\ last.res \in {False, Nullopt}

\* ------------------------------------------------- C19
\* thread t is inside wait / wait_for after a wakeup and its predicate is
\* false: a producer on a full open queue, a consumer on an empty open queue
WokenInVain(t) ==
    /\ pc[t] = "woken"
    /\ \/ op[t] \in Pushes /\ ~PushPred(queue_, capacity_, closed_)
       \/ op[t] \in Pops /\ ~PopPred(queue_, closed_)

\* C19: spurious wakeups are absorbed: a thread woken while its predicate is
\* false re-acquires the lock, suspends again, and on the way changes neither
\* queue_ nor closed_, invokes no hook and returns no result.
C19_SpuriousAbsorbed ==
    [][\A t \in Threads :
          (WokenInVain(t) /\ pc'[t] # pc[t]) =>
              /\ pc'[t] = "waiting"
              /\ t \in cv_'
              /\ mutex_' = NoThread
              /\ op'[t] = op[t]
              /\ arg'[t] = arg[t]
              /\ UNCHANGED <<data, hooks, hist, last>>]_vars

\* a consumer was woken although nothing was ever inserted or closed: no
\* notify_one() or notify_all() has run, the wakeup is spurious
C19_Witness ==
    \E t \in Threads :
        /\ WokenInVain(t)
        /\ op[t] \in Pops
        /\ mutex_ = NoThread
        /\ nOnPush = 0
        /\ nOnClose = 0
        /\ \A w \in Threads : pc[w] \notin InCall

\* ------------------------------------------------- C20
\* C20: a timed operation does not fail while it could succeed: try_pop
\* returns nullopt only if queue_ is empty when it last holds the lock, and
\* a try_pop whose timeout has expired still takes an item that is there;
\* try_push on a queue that is open at that moment returns false only if the
\* queue is full, and otherwise goes on to insert.
C20_TimedSatisfiable ==
    [][\A t \in Threads :
          /\ ((try_pop_begin(t) \/ try_pop_wake(t)) /\ pc'[t] = "idle") =>
                /\ queue_ = <<>>
                /\ last' = [op |-> "try_pop", res |-> Nullopt]
          /\ (try_pop_wake(t) /\ queue_ # <<>>) => pc'[t] = "remove"
          /\ ((try_push_begin(t, NextItem) \/ try_push_wake(t))
                 /\ pc'[t] = "idle" /\ ~closed_) =>
                /\ Len(queue_) >= capacity_
                /\ last' = [op |-> "try_push", res |-> False]
          /\ (try_push_wake(t) /\ ~closed_ /\ Len(queue_) < capacity_) =>
                pc'[t] = "insert"]_vars

\* the timeout of a try_pop has expired and an item has arrived before the
\* thread re-acquires the lock
C20_Witness ==
    \E t \in Threads :
        /\ pc[t] = "timedout"
        /\ op[t] = "try_pop"
        /\ mutex_ = NoThread
        /\ queue_ # <<>>
        /\ ~closed_

\* ------------------------------------------------- C13
\* the items a call can carry
Items == 1..MaxBlockingCalls

\* the producer is the only suspended thread, in push(v) on a full open queue
\* with head h, and the consumer is inside a pop() that is about to remove h
PushBlocked(v, h) ==
    /\ pc[Producer] = "waiting"
    /\ op[Producer] = "push"
    /\ arg[Producer] = v
    /\ cv_ = {Producer}
    /\ ~closed_
    /\ Len(queue_) = capacity_
    /\ Head(queue_) = h
    /\ pc[Consumer] = "remove"

\* the consumer is the only suspended thread, in pop() on an empty open
\* queue, and the producer is inside a push(v) that is about to insert v
PopBlocked(v) ==
    /\ pc[Consumer] = "waiting"
    /\ op[Consumer] = "pop"
    /\ cv_ = {Consumer}
    /\ ~closed_
    /\ queue_ = <<>>
    /\ pc[Producer] = "insert"
    /\ arg[Producer] = v

====
